---- MODULE Spec2Model ----
(***************************************************************************)
(* kubeimage: rollout convergence engine (src/kubeimage.js).               *)
(*                                                                         *)
(* The process is a single-threaded event loop.  Every action below is one *)
(* callback of that loop, run to completion: the callback of a child       *)
(* process started by execRetry, a retry timer, the poll timer, or the     *)
(* end of the process when nothing is pending any more.                    *)
(***************************************************************************)
EXTENDS Integers, Sequences, FiniteSets, TLC

VARIABLES
    deploymentsToUpdate, \* main: the name[=build] arguments, in order
    pollTimeout,         \* --timeout, seconds
    failScope,           \* environment: the command kind that may fail in this run
    cmd,                 \* execRetry: per command, its stage and tryNumber
    tasksDone,           \* async.parallel: the tasks that have called back
    deployments,         \* main: results[0] of async.parallel
    initPods,            \* getPodsWithBuildNumbers (main): its closure variable pods
    allPods,             \* main: results[1] of async.parallel
    req,                 \* main: per argument, the closure of its callbacks
    pollingStarted,
    pollingTargets,
    pollingListeners,
    pollingHasErrors,
    pollStarted,
    now,                 \* Math.floor(new Date() / 1000)
    pollPodsTmp,         \* getPodsWithBuildNumbers (pollPods): its closure variable pods
    pollTimer,           \* setTimeout(pollPods, pollInterval) is pending
    exitStatus,          \* -1 while the process runs, else its exit status
    exitReason,          \* which exit path ended the process
    timeoutReport,       \* the target names the timeout message lists
    lastDispatch,        \* observation of the last dispatch pass of pollPods
    errorRecorded,       \* observation: some target recorded an error
    fnIn,                \* input of a function applied in isolation
    fnOut                \* its result

vars == <<deploymentsToUpdate, pollTimeout, failScope, cmd, tasksDone, deployments, initPods,
          allPods, req, pollingStarted, pollingTargets, pollingListeners,
          pollingHasErrors, pollStarted, now, pollPodsTmp, pollTimer, exitStatus,
          exitReason, timeoutReport, lastDispatch, errorRecorded, fnIn, fnOut>>

(***************************************************************************)
(* Bounds of the model.                                                    *)
(***************************************************************************)
MaxDesired == 1      \* desired replica count of a deployment (orchestrator runs)
MaxPods == 1         \* pod lines in one "kubectl get pods" answer (orchestrator runs)
MaxTimeout == 1      \* --timeout of a run without failing commands
MaxPodsL == 3        \* pods in a snapshot handed to a listener in isolation
MaxDesiredL == 3     \* desired replica count of a listener in isolation
MaxIdLen == 6        \* characters of a pod id handed to the name derivation
MaxPodsB == 3        \* pods requested in one build query in isolation
MaxMatchesB == 4     \* pattern matches in the output of that query
MaxPodsT == 2        \* pods in each snapshot of two successive ticks of a listener
MaxDesiredT == 2     \* desired replica count of that listener

(***************************************************************************)
(* Program constants.                                                      *)
(***************************************************************************)
maxExecRetries == 30

Names == {"a", "b"}
Builds == {"1", "2"}
NoBuild == "none"    \* pod.build undefined; build pattern not found
\* the deployment named by the r-th argument; the arguments name distinct deployments
NameOf == <<"a", "b">>
RequestedBuilds == {"2"}
PodStates == {"Running", "Pending", "ContainerCreating", "Terminating",
              "Error", "CrashLoopBackOff", "Completed"}

SeqsUpTo(S, n) == UNION {[1..k -> S] : k \in 0..n}

PullKeepsAll(s, x) == s

\* _.pull keeps the order of the elements it keeps and removes every occurrence
Pull(s, x) == LET keep(e) == e # x IN SelectSeq(s, keep)

InSeq(s, x) == \E i \in 1..Len(s) : s[i] = x

FilterByName(pods, serviceName) ==
    LET keep(p) == p.name = serviceName IN SelectSeq(pods, keep)

FilterByNames(pods, names) ==
    LET keep(p) == InSeq(names, p.name) IN SelectSeq(pods, keep)

(***************************************************************************)
(* healthCheckPods: the listener closure (kubeimage.js 222-249).           *)
(***************************************************************************)
\* line 230: the states that are not counted as a failed pod
IsErrorStateHardFailuresOnly(state) == state \in {"Error", "CrashLoopBackOff"}

IsErrorState(state) ==
    /\ state # "ContainerCreating"
    /\ state # "Running"
    /\ state # "Pending"
    /\ state # "Terminating"

IsRunningReadyIgnoringReady(pod) == pod.state = "Running"

\* line 233
IsRunningReady(pod) == pod.state = "Running" /\ pod.ready

\* line 229
MatchesBuild(pod, buildNumber) == pod.build = buildNumber

RECURSIVE CountPods(_, _, _)
\* lines 225-237: currentPods.forEach with the two counters
CountPods(currentPods, buildNumber, acc) ==
    IF currentPods = <<>> THEN acc
    ELSE LET pod == Head(currentPods)
             next == IF MatchesBuild(pod, buildNumber)
                     THEN IF IsErrorState(pod.state)
                          THEN [acc EXCEPT !.totalErrors = @ + 1]
                          ELSE IF IsRunningReady(pod)
                               THEN [acc EXCEPT !.totalPodsRunning = @ + 1]
                               ELSE acc
                     ELSE acc
         IN CountPods(Tail(currentPods), buildNumber, next)

ResolvedAtLeast(counts, desiredCount) ==
    counts.totalPodsRunning + counts.totalErrors >= desiredCount

\* line 239
Resolved(counts, desiredCount) ==
    counts.totalPodsRunning + counts.totalErrors = desiredCount

ErrorFlagAfterOverwrite(hasErrors, totalErrors) == totalErrors > 0

\* lines 240-245: pollingHasErrors is only ever assigned true
ErrorFlagAfter(hasErrors, totalErrors) ==
    IF totalErrors > 0 THEN TRUE ELSE hasErrors

\* the counters go on from where the listener's last evaluation left them
InitialCountsCarriedOver(l, log) ==
    LET mine == {i \in 1..Len(log) : log[i].l = l}
    IN IF mine = {} THEN [totalPodsRunning |-> 0, totalErrors |-> 0]
       ELSE LET last == CHOOSE i \in mine : \A k \in mine : k <= i
            IN [totalPodsRunning |-> log[last].totalPodsRunning,
                totalErrors |-> log[last].totalErrors]

\* lines 225-226: both counters are declared inside the listener, so every
\* evaluation starts them at zero whatever the earlier evaluations (log) counted
InitialCounts(l, log) == [totalPodsRunning |-> 0, totalErrors |-> 0]

\* The listener of request l applied to the poll state st =
\* [targets, listeners, hasErrors, log]; log records the invocation.
Listener(l, serviceName, desiredCount, buildNumber, pods, st) ==
    LET currentPods == FilterByName(pods, serviceName)
        counts == CountPods(currentPods, buildNumber, InitialCounts(l, st.log))
        entry(resolved) == [l |-> l,
                            totalPodsRunning |-> counts.totalPodsRunning,
                            totalErrors |-> counts.totalErrors,
                            resolved |-> resolved]
    IN IF Resolved(counts, desiredCount)
       THEN [targets |-> Pull(st.targets, serviceName),
             listeners |-> Pull(st.listeners, l),
             hasErrors |-> ErrorFlagAfter(st.hasErrors, counts.totalErrors),
             log |-> Append(st.log, entry(TRUE))]
       ELSE [st EXCEPT !.log = Append(@, entry(FALSE))]

RECURSIVE ForEachListener(_, _, _, _, _)
\* lines 182-184: Array.prototype.forEach visits the indices below the length
\* the array had when the pass began, and skips an index that no longer
\* exists; _.pull in a listener shifts the later listeners down by one.
\* st1 is the state the k-th listener leaves, bound through a one-element
\* set so that it is computed once.
ForEachListener(k, len0, closures, pods, st) ==
    IF k > len0 THEN st
    ELSE IF k <= Len(st.listeners)
         THEN CHOOSE pass \in
                  {ForEachListener(k + 1, len0, closures, pods, st1) :
                      st1 \in {Listener(l, closures[l].name, closures[l].desired,
                                       closures[l].build, pods, st) :
                                  l \in {st.listeners[k]}}} : TRUE
         ELSE ForEachListener(k + 1, len0, closures, pods, st)

\* a pod without a match of its own takes the build of the last match
AssignBuildsRepeatLast(pods, matches) ==
    [i \in 1..Len(pods) |->
        IF i <= Len(matches) THEN [pods[i] EXCEPT !.build = matches[i]]
        ELSE IF matches # <<>> THEN [pods[i] EXCEPT !.build = matches[Len(matches)]]
             ELSE pods[i]]

\* lines 93-98: the n-th match of the build pattern goes to the n-th pod
AssignBuilds(pods, matches) ==
    [i \in 1..Len(pods) |->
        IF i <= Len(matches) THEN [pods[i] EXCEPT !.build = matches[i]]
        ELSE pods[i]]

(***************************************************************************)
(* execRetry (kubeimage.js 21-45).  A command is identified by its caller  *)
(* and, for the per-argument commands, the index of the argument.          *)
(***************************************************************************)
NoCmd == <<"none", 0>>
GetDeploymentsCmd == <<"getDeployments", 0>>
GetPodsMainCmd == <<"getPodsMain", 0>>
GetPodMainCmd == <<"getPodMain", 0>>
GetPodsPollCmd == <<"getPodsPoll", 0>>
GetPodPollCmd == <<"getPodPoll", 0>>
BuildCmd(r) == <<"getDeploymentBuildNumber", r>>
UpdateCmd(r) == <<"updateDeploymentBuildNumber", r>>

CmdIds ==
    {GetDeploymentsCmd, GetPodsMainCmd, GetPodMainCmd, GetPodsPollCmd, GetPodPollCmd}
    \cup {BuildCmd(r) : r \in 1..Len(NameOf)} \cup {UpdateCmd(r) : r \in 1..Len(NameOf)}

Idle == [stage |-> "none", tryNumber |-> 0]

\* line 22-25: a fresh execRetry starts with tryNumber 0 and runs the command
StartCmd(c, cm) == [cm EXCEPT ![c] = [stage |-> "exec", tryNumber |-> 0]]

EndCmdLeavesRunning(c, cm) == cm

EndCmd(c, cm) == [cm EXCEPT ![c] = Idle]

OutOfRetriesOneEarly(tryNumber) == tryNumber >= maxExecRetries

\* line 28, evaluated after tryNumber++
OutOfRetries(tryNumber) == tryNumber > maxExecRetries

Running == exitStatus = -1

NothingPending == (\A c \in CmdIds : cmd[c].stage = "none") /\ ~pollTimer

(***************************************************************************)
(* pollPods and finishUpdate (kubeimage.js 169-200).                       *)
(***************************************************************************)
TimedOutNever(n, started, timeout) == FALSE

TimedOutAtLimit(n, started, timeout) == n - started >= timeout

\* line 175
TimedOut(n, started, timeout) == n - started > timeout

FinishStatusAlwaysZero(hasErrors) == 0

\* lines 196-199
FinishStatus(hasErrors) == IF hasErrors THEN 1 ELSE 0

StartTimeRetaken(started, n) == n

\* lines 171-173: the start time is taken while pollStarted is not set
StartTime(started, n) == IF started = 0 THEN n ELSE started

\* The values the clock may show at line 175.  The call of pollPods that
\* takes the start time has read the clock at line 172 (n) and reads it
\* again at line 175: time may have passed between the two reads.  A later
\* call reads the clock once.  The clock is not followed further than one
\* second past the deadline.
DeadlineReads(started, n, timeout) ==
    IF started = 0 THEN n..(n + timeout + 1) ELSE {n}

\* lines 171-180 of pollPods, run with the active set targets1 and the
\* commands cmd1 left by the caller: take the start time on the first call,
\* exit on the deadline, else issue "kubectl get pods".
PollPodsBody(targets1, cmd1) ==
    LET started == StartTime(pollStarted, now)
    IN /\ pollStarted' = started
       /\ pollingTargets' = targets1
       /\ \E now2 \in DeadlineReads(pollStarted, now, pollTimeout) :
             /\ now' = now2
             /\ IF TimedOut(now2, started, pollTimeout)
                THEN /\ exitStatus' = 1
                     /\ exitReason' = "timeout"
                     /\ timeoutReport' = targets1
                     /\ cmd' = cmd1
                ELSE /\ cmd' = StartCmd(GetPodsPollCmd, cmd1)
                     /\ UNCHANGED <<exitStatus, exitReason, timeoutReport>>

MustStartPollingAlways(started) == TRUE

\* line 253
MustStartPolling(started) == ~started

\* healthCheckPods, lines 251-256 (the listener itself is Listener above)
HealthCheckPods(r, buildNumber, targets1, cmd1) ==
    /\ pollingListeners' = Append(pollingListeners, r)
    /\ req' = [req EXCEPT ![r].phase = "listening", ![r].build = buildNumber]
    /\ IF MustStartPolling(pollingStarted)
       THEN /\ pollingStarted' = TRUE
            /\ PollPodsBody(targets1, cmd1)
       ELSE /\ pollingTargets' = targets1
            /\ cmd' = cmd1
            /\ UNCHANGED <<pollingStarted, pollStarted, now, exitStatus, exitReason,
                           timeoutReport>>

(***************************************************************************)
(* What the cluster may answer (the environment).                          *)
(***************************************************************************)
\* (state, ready) of the pods of an orchestrator run
PodKinds == {[state |-> "Running", ready |-> TRUE],
             [state |-> "Error", ready |-> FALSE],
             [state |-> "ContainerCreating", ready |-> FALSE]}

\* parsePods: a parsed line has no build yet
ParsedPods == {[name |-> n, state |-> k.state, ready |-> k.ready, build |-> NoBuild] :
                  n \in Names, k \in PodKinds}

Snapshots == SeqsUpTo(ParsedPods, MaxPods)

\* The commands that may fail in some run.  A run has failures of at most one
\* of them (failScope); in a run with failures every argument is an update,
\* --timeout is 0, every deployment is listed with one desired replica,
\* no pod is listed when the run starts and a poll lists at most one pod.
FailScopes == {GetPodsPollCmd, BuildCmd(2), UpdateCmd(1)}

MainSnapshots == IF failScope = NoCmd THEN Snapshots ELSE {<<>>}

PollSnapshots == IF failScope = NoCmd THEN Snapshots ELSE SeqsUpTo(ParsedPods, 1)

\* lines 263-273: name=build for an update, name alone for a report
ArgumentLists ==
    UNION {{args \in [1..k -> [name : Names, build : RequestedBuilds \cup {NoBuild}]] :
               \A r \in 1..k : args[r].name = NameOf[r]} : k \in 1..Len(NameOf)}

Requested(name) ==
    \E r \in 1..Len(deploymentsToUpdate) : deploymentsToUpdate[r].name = name

\* parseDeployments: name -> desiredCount, -1 for a name that is not listed.
\* The replica counts vary in the runs with one argument; in a run with two
\* arguments a listed deployment has one replica.
DeploymentTables ==
    {d \in [Names -> -1..MaxDesired] :
        /\ \A n \in Names : ~Requested(n) => d[n] = -1
        /\ Len(deploymentsToUpdate) > 1 => \A n \in Names : d[n] \in {-1, 1}
        /\ failScope # NoCmd => \A n \in Names : Requested(n) => d[n] = 1}

\* fnOut before the function under study has been applied
NotApplied == [done |-> FALSE]

\* lastDispatch holds the listeners registered when the dispatch pass of the
\* current tick began and the listeners it invoked, in order
NoDispatch == [registered |-> <<>>, invoked |-> <<>>]

vInputs == <<deploymentsToUpdate, pollTimeout, failScope>>
vFn == <<fnIn, fnOut>>
vMain == <<tasksDone, deployments, initPods, allPods>>
vPoll == <<pollingStarted, pollingTargets, pollingListeners, pollingHasErrors,
           pollStarted, pollPodsTmp, pollTimer>>
vExit == <<exitStatus, exitReason, timeoutReport>>
vObs == <<lastDispatch, errorRecorded>>

(***************************************************************************)
(* main (kubeimage.js 259-340).                                            *)
(***************************************************************************)
\* serviceName, foundDeployment.desiredCount and the listener's buildNumber.
\* running is what lines 311-316 count: they run only with buildNumber equal
\* to deployment[1], and pods and deployment[1] are fixed when the closure is
\* created (line 304), so the count is taken then.
\* phase and updated record how far the argument has got and whether line 324 ran.
NewReq(r) == [phase |-> "start", name |-> NameOf[r], desired |-> 0, running |-> 0,
              build |-> NoBuild, updated |-> FALSE]

Init ==
    /\ deploymentsToUpdate \in ArgumentLists
    /\ pollTimeout \in {0, MaxTimeout}
    /\ failScope \in {NoCmd} \cup FailScopes
    /\ failScope = NoCmd => pollTimeout = MaxTimeout
    /\ failScope # NoCmd =>
          /\ pollTimeout = 0
          /\ Len(deploymentsToUpdate) = Len(NameOf)
          /\ \A r \in 1..Len(deploymentsToUpdate) : deploymentsToUpdate[r].build # NoBuild
    /\ cmd = [c \in CmdIds |->
                IF c \in {GetDeploymentsCmd, GetPodsMainCmd}
                THEN [stage |-> "exec", tryNumber |-> 0] ELSE Idle]
    /\ tasksDone = {}
    /\ deployments = [n \in Names |-> -1]
    /\ initPods = <<>>
    /\ allPods = <<>>
    /\ req = [r \in 1..Len(deploymentsToUpdate) |-> NewReq(r)]
    /\ pollingStarted = FALSE
    /\ pollingTargets = <<>>
    /\ pollingListeners = <<>>
    /\ pollingHasErrors = FALSE
    /\ pollStarted = 0
    /\ now = 1
    /\ pollPodsTmp = <<>>
    /\ pollTimer = FALSE
    /\ exitStatus = -1
    /\ exitReason = "running"
    /\ timeoutReport = <<>>
    /\ lastDispatch = NoDispatch
    /\ errorRecorded = FALSE
    /\ fnIn = NotApplied
    /\ fnOut = NotApplied

RECURSIVE CountRunning(_, _)
\* lines 311-316
CountRunning(pods, buildNumber) ==
    IF pods = <<>> THEN 0
    ELSE (IF Head(pods).build = buildNumber /\ Head(pods).state = "Running"
             /\ Head(pods).ready THEN 1 ELSE 0)
         + CountRunning(Tail(pods), buildNumber)

\* lines 294-337: the final callback of async.parallel, run with the commands
\* cmd1 left by the task that completed last
ParallelDone(d, ap, cmd1) ==
    LET found(r) == d[deploymentsToUpdate[r].name] # -1
    IN /\ req' = [r \in 1..Len(deploymentsToUpdate) |->
                    IF found(r)
                    THEN [NewReq(r) EXCEPT
                             !.phase = "querying",
                             !.desired = d[deploymentsToUpdate[r].name],
                             !.running =
                                 IF deploymentsToUpdate[r].build = NoBuild THEN 0
                                 ELSE CountRunning(
                                          FilterByName(ap, deploymentsToUpdate[r].name),
                                          deploymentsToUpdate[r].build)]
                    ELSE [NewReq(r) EXCEPT !.phase = "notfound"]]
       /\ cmd' = [c \in CmdIds |->
                    IF \E r \in 1..Len(deploymentsToUpdate) : c = BuildCmd(r) /\ found(r)
                    THEN [stage |-> "exec", tryNumber |-> 0]
                    ELSE cmd1[c]]
       /\ tasksDone' = {"getDeployments", "getPodsWithBuildNumbers"}
       /\ deployments' = [n \in Names |-> -1]
       /\ allPods' = <<>>

\* getDeployments, lines 107-111, as the first task of async.parallel
GetDeploymentsOk ==
    /\ Running
    /\ cmd[GetDeploymentsCmd].stage = "exec"
    /\ \E d \in DeploymentTables :
          IF "getPodsWithBuildNumbers" \in tasksDone
          THEN ParallelDone(d, allPods, EndCmd(GetDeploymentsCmd, cmd))
          ELSE /\ deployments' = d
               /\ tasksDone' = tasksDone \cup {"getDeployments"}
               /\ cmd' = EndCmd(GetDeploymentsCmd, cmd)
               /\ UNCHANGED <<allPods, req>>
    /\ UNCHANGED <<vInputs, initPods, vPoll, now, vExit, vObs, vFn>>

\* getPodsWithBuildNumbers, lines 86-89, called from main
GetPodsMainOk ==
    /\ Running
    /\ cmd[GetPodsMainCmd].stage = "exec"
    /\ \E snapshot \in MainSnapshots :
          initPods' = FilterByNames(snapshot,
                         [r \in 1..Len(deploymentsToUpdate) |-> deploymentsToUpdate[r].name])
    /\ cmd' = StartCmd(GetPodMainCmd, EndCmd(GetPodsMainCmd, cmd))
    /\ UNCHANGED <<vInputs, tasksDone, deployments, allPods, req, vPoll, now, vExit,
                   vObs, vFn>>

\* getPodsWithBuildNumbers, lines 89-100, called from main
GetPodMainOk ==
    /\ Running
    /\ cmd[GetPodMainCmd].stage = "exec"
    /\ \E matches \in SeqsUpTo(Builds, Len(initPods)) :
          LET pods == AssignBuilds(initPods, matches)
          IN IF "getDeployments" \in tasksDone
             THEN ParallelDone(deployments, pods, EndCmd(GetPodMainCmd, cmd))
             ELSE /\ allPods' = pods
                  /\ tasksDone' = tasksDone \cup {"getPodsWithBuildNumbers"}
                  /\ cmd' = EndCmd(GetPodMainCmd, cmd)
                  /\ UNCHANGED <<deployments, req>>
    /\ initPods' = <<>>
    /\ UNCHANGED <<vInputs, vPoll, now, vExit, vObs, vFn>>

\* lines 306-331, the argument is only reported: name without =build
BuildOkReport(r) ==
    /\ Running
    /\ r \in 1..Len(deploymentsToUpdate)
    /\ cmd[BuildCmd(r)].stage = "exec"
    /\ deploymentsToUpdate[r].build = NoBuild
    /\ cmd' = EndCmd(BuildCmd(r), cmd)
    /\ req' = [req EXCEPT ![r].phase = "reported"]
    /\ UNCHANGED <<vInputs, vMain, vPoll, now, vExit, vObs, vFn>>

\* lines 306-322, the deployment is already configured to the requested build
BuildOkSame(r) ==
    /\ Running
    /\ r \in 1..Len(deploymentsToUpdate)
    /\ cmd[BuildCmd(r)].stage = "exec"
    /\ deploymentsToUpdate[r].build # NoBuild
    /\ LET buildNumber == deploymentsToUpdate[r].build
           targets1 == Append(pollingTargets, deploymentsToUpdate[r].name)
           cmd1 == EndCmd(BuildCmd(r), cmd)
       IN IF req[r].running = req[r].desired
          THEN /\ pollingTargets' = targets1
               /\ cmd' = cmd1
               /\ req' = [req EXCEPT ![r].phase = "uptodate", ![r].build = buildNumber]
               /\ UNCHANGED <<pollingStarted, pollingListeners, pollStarted, now, vExit>>
          ELSE HealthCheckPods(r, buildNumber, targets1, cmd1)
    /\ UNCHANGED <<vInputs, vMain, pollingHasErrors,
                   pollPodsTmp, pollTimer, vObs, vFn>>

\* the listener is registered as soon as the update command is issued
BuildOkOtherListensAtOnce(r) ==
    /\ Running
    /\ r \in 1..Len(deploymentsToUpdate)
    /\ cmd[BuildCmd(r)].stage = "exec"
    /\ deploymentsToUpdate[r].build # NoBuild
    /\ \E buildNumber \in (Builds \cup {NoBuild}) \ {deploymentsToUpdate[r].build} :
          /\ pollingTargets' = Append(pollingTargets, deploymentsToUpdate[r].name)
          /\ pollingListeners' = Append(pollingListeners, r)
          /\ cmd' = StartCmd(UpdateCmd(r), EndCmd(BuildCmd(r), cmd))
          /\ req' = [req EXCEPT ![r].phase = "updating", ![r].updated = TRUE]
    /\ UNCHANGED <<vInputs, vMain, pollingStarted,
                   pollingHasErrors, pollStarted, pollPodsTmp,
                   pollTimer, now, vExit, vObs, vFn>>

\* lines 306-309 and 323-325, the configured build differs (or was not found)
BuildOkOther(r) ==
    /\ Running
    /\ r \in 1..Len(deploymentsToUpdate)
    /\ cmd[BuildCmd(r)].stage = "exec"
    /\ deploymentsToUpdate[r].build # NoBuild
    /\ \E buildNumber \in (Builds \cup {NoBuild}) \ {deploymentsToUpdate[r].build} :
          /\ pollingTargets' = Append(pollingTargets, deploymentsToUpdate[r].name)
          /\ cmd' = StartCmd(UpdateCmd(r), EndCmd(BuildCmd(r), cmd))
          /\ req' = [req EXCEPT ![r].phase = "updating", ![r].updated = TRUE]
    /\ UNCHANGED <<vInputs, vMain, pollingStarted,
                   pollingListeners, pollingHasErrors, pollStarted, pollPodsTmp,
                   pollTimer, now, vExit, vObs, vFn>>

\* updateDeploymentBuildNumber, lines 204-206: the mutation succeeded
UpdateOk(r) ==
    /\ Running
    /\ r \in 1..Len(deploymentsToUpdate)
    /\ cmd[UpdateCmd(r)].stage = "exec"
    /\ HealthCheckPods(r, deploymentsToUpdate[r].build, pollingTargets,
                       EndCmd(UpdateCmd(r), cmd))
    /\ UNCHANGED <<vInputs, vMain, pollingHasErrors,
                   pollPodsTmp, pollTimer, vObs, vFn>>

\* updateDeploymentBuildNumber, lines 207-215, reached from execRetry line 30.
\* Line 211 reads error and stderr, which are not in scope there: the
\* ReferenceError is uncaught and ends the process with status 1 before
\* line 212 runs.
UpdateOnError(r) ==
    /\ Running
    /\ r \in 1..Len(deploymentsToUpdate)
    /\ cmd[UpdateCmd(r)].stage = "exec"
    /\ failScope = UpdateCmd(r)
    /\ OutOfRetries(cmd[UpdateCmd(r)].tryNumber + 1)
    /\ pollingTargets' = Pull(pollingTargets, deploymentsToUpdate[r].name)
    /\ pollingHasErrors' = TRUE
    /\ errorRecorded' = TRUE
    /\ req' = [req EXCEPT ![r].phase = "updatefailed"]
    /\ cmd' = EndCmd(UpdateCmd(r), cmd)
    /\ exitStatus' = 1
    /\ exitReason' = "uncaught"
    /\ UNCHANGED <<vInputs, vMain, pollingStarted,
                   pollingListeners, pollStarted, pollPodsTmp, pollTimer, now,
                   timeoutReport, lastDispatch, vFn>>

\* execRetry, lines 26-28 and 35-39: a failure with attempts remaining
ExecRetry(c) ==
    /\ Running
    /\ cmd[c].stage = "exec"
    /\ failScope = c
    /\ ~OutOfRetries(cmd[c].tryNumber + 1)
    /\ cmd' = [cmd EXCEPT ![c] = [stage |-> "timer", tryNumber |-> cmd[c].tryNumber + 1]]
    /\ UNCHANGED <<vInputs, vMain, req, vPoll, now, vExit,
                   vObs, vFn>>

\* execRetry, lines 37-39 and 25: the retry timer fires and runs the command again
RetryFire(c) ==
    /\ Running
    /\ cmd[c].stage = "timer"
    /\ cmd' = [cmd EXCEPT ![c].stage = "exec"]
    /\ UNCHANGED <<vInputs, vMain, req, vPoll, now, vExit,
                   vObs, vFn>>

\* execRetry, lines 28-34: out of retries and no onError handler
ExecFatal(c) ==
    /\ Running
    /\ c[1] # "updateDeploymentBuildNumber"
    /\ cmd[c].stage = "exec"
    /\ failScope = c
    /\ OutOfRetries(cmd[c].tryNumber + 1)
    /\ cmd' = EndCmd(c, cmd)
    /\ exitStatus' = 1
    /\ exitReason' = "fatal"
    /\ UNCHANGED <<vInputs, vMain, req, vPoll, now,
                   timeoutReport, vObs, vFn>>

\* the poll timer of line 189 fires: pollPods, lines 169-180
PollTick ==
    /\ Running
    /\ pollTimer
    /\ pollTimer' = FALSE
    /\ PollPodsBody(pollingTargets, cmd)
    /\ lastDispatch' = NoDispatch
    /\ UNCHANGED <<vInputs, vMain, req, pollingStarted, pollingListeners,
                   pollingHasErrors, pollPodsTmp, errorRecorded, vFn>>

\* getPodsWithBuildNumbers, lines 86-89, called from pollPods
GetPodsPollOk ==
    /\ Running
    /\ cmd[GetPodsPollCmd].stage = "exec"
    /\ cmd' = StartCmd(GetPodPollCmd, EndCmd(GetPodsPollCmd, cmd))
    /\ \E pods \in {FilterByNames(snapshot, pollingTargets) : snapshot \in PollSnapshots} :
          pollPodsTmp' = pods
    /\ UNCHANGED <<vInputs, vMain, req, pollingStarted,
                   pollingTargets, pollingListeners, pollingHasErrors, pollStarted,
                   pollTimer, now, vExit, vObs, vFn>>

Outcome(entry) == IF entry.totalErrors > 0 THEN "errored" ELSE "converged"

\* getPodsWithBuildNumbers, lines 89-100, then the callback of pollPods,
\* lines 180-191, and finishUpdate, lines 194-200
GetPodPollOk ==
    /\ Running
    /\ cmd[GetPodPollCmd].stage = "exec"
    /\ pollPodsTmp' = <<>>
    /\ cmd' = EndCmd(GetPodPollCmd, cmd)
    /\ \E st \in {ForEachListener(1, Len(pollingListeners), req, pods,
                                    [targets |-> pollingTargets, listeners |-> pollingListeners,
                                     hasErrors |-> pollingHasErrors, log |-> <<>>]) :
                       pods \in {AssignBuilds(pollPodsTmp, matches) :
                                    matches \in SeqsUpTo(Builds, Len(pollPodsTmp))}} :
          LET resolvedAt(r) == {i \in 1..Len(st.log) : st.log[i].l = r /\ st.log[i].resolved}
          IN /\ pollingTargets' = st.targets
             /\ pollingListeners' = st.listeners
             /\ pollingHasErrors' = st.hasErrors
             /\ lastDispatch' = [registered |-> pollingListeners,
                                 invoked |-> [i \in 1..Len(st.log) |-> st.log[i].l]]
             /\ errorRecorded' =
                   (errorRecorded \/ \E i \in 1..Len(st.log) :
                                        st.log[i].resolved /\ st.log[i].totalErrors > 0)
             /\ req' = [r \in DOMAIN req |->
                          IF resolvedAt(r) # {}
                          THEN [req[r] EXCEPT !.phase =
                                   Outcome(st.log[CHOOSE i \in resolvedAt(r) : TRUE])]
                          ELSE req[r]]
             /\ IF Len(st.targets) = 0
                THEN /\ exitStatus' = FinishStatus(st.hasErrors)
                     /\ exitReason' = "finishUpdate"
                     /\ pollTimer' = FALSE
                ELSE /\ pollTimer' = TRUE
                     /\ UNCHANGED <<exitStatus, exitReason>>
    /\ UNCHANGED <<vInputs, vMain, pollingStarted,
                   pollStarted, now, timeoutReport, vFn>>

\* the clock.  Only now - pollStarted is ever read (line 175), so the clock
\* stands at 1 until pollPods takes the start time and stops once the
\* deadline has passed.
AdvanceClock ==
    /\ Running
    /\ pollStarted # 0
    /\ now - pollStarted <= pollTimeout
    /\ now' = now + 1
    /\ UNCHANGED <<vInputs, cmd, vMain, req, vPoll, vExit,
                   vObs, vFn>>

\* Node ends the process with status 0 when no child process and no timer is left
EventLoopDrained ==
    /\ Running
    /\ NothingPending
    /\ exitStatus' = 0
    /\ exitReason' = "drained"
    /\ UNCHANGED <<vInputs, cmd, vMain, req, vPoll, now,
                   timeoutReport, vObs, vFn>>

Next ==
    \/ GetDeploymentsOk
    \/ GetPodsMainOk
    \/ GetPodMainOk
    \/ \E r \in 1..Len(NameOf) : BuildOkReport(r)
    \/ \E r \in 1..Len(NameOf) : BuildOkSame(r)
    \/ \E r \in 1..Len(NameOf) : BuildOkOther(r)
    \/ \E r \in 1..Len(NameOf) : UpdateOk(r)
    \/ \E r \in 1..Len(NameOf) : UpdateOnError(r)
    \/ \E c \in CmdIds : ExecRetry(c)
    \/ \E c \in CmdIds : RetryFire(c)
    \/ \E c \in CmdIds : ExecFatal(c)
    \/ PollTick
    \/ GetPodsPollOk
    \/ GetPodPollOk
    \/ AdvanceClock
    \/ EventLoopDrained

Spec == Init /\ [][Next]_vars

FairSpec == Spec /\ WF_vars(Next) /\ WF_vars(AdvanceClock)

(***************************************************************************)
(* The listener applied in isolation to one snapshot.                      *)
(***************************************************************************)
\* every state and readiness, one pod
PodsAnyState == [name : Names, state : PodStates, ready : BOOLEAN,
                 build : Builds \cup {NoBuild}]

\* several pods of the states the counters tell apart
PodsCounted == {[name |-> nb[1], state |-> k.state, ready |-> k.ready, build |-> nb[2]] :
                   nb \in {<<"a", "2">>, <<"a", "1">>, <<"b", "2">>}, k \in PodKinds}

ListenerSnapshots == {<<p>> : p \in PodsAnyState} \cup SeqsUpTo(PodsCounted, MaxPodsL)

\* the listener of argument 1 (deployment a, build 2), alone or with the
\* listener of argument 2 registered before it
ListenerInputs ==
    {[l |-> 1, serviceName |-> "a", desiredCount |-> d, buildNumber |-> "2",
      pods |-> ps, targets |-> reg[1], listeners |-> reg[2], hasErrors |-> e] :
        d \in 0..MaxDesiredL, ps \in ListenerSnapshots,
        reg \in {<<(<<"a">>), (<<1>>)>>, <<(<<"b", "a">>), (<<2, 1>>)>>},
        e \in BOOLEAN}

\* the orchestrator is not running while a function is applied in isolation
Parked ==
    /\ deploymentsToUpdate = <<>>
    /\ pollTimeout = 0
    /\ failScope = NoCmd
    /\ cmd = [c \in CmdIds |-> Idle]
    /\ tasksDone = {}
    /\ deployments = [n \in Names |-> -1]
    /\ initPods = <<>>
    /\ allPods = <<>>
    /\ req = <<>>
    /\ pollingStarted = FALSE
    /\ pollingTargets = <<>>
    /\ pollingListeners = <<>>
    /\ pollingHasErrors = FALSE
    /\ pollStarted = 0
    /\ now = 1
    /\ pollPodsTmp = <<>>
    /\ pollTimer = FALSE
    /\ exitStatus = -1
    /\ exitReason = "running"
    /\ timeoutReport = <<>>
    /\ lastDispatch = NoDispatch
    /\ errorRecorded = FALSE

vOrchestrator == <<vInputs, cmd, vMain, req, vPoll, now, vExit, vObs>>

InitListener ==
    /\ Parked
    /\ fnIn \in ListenerInputs
    /\ fnOut = NotApplied

ApplyListener ==
    /\ ~fnOut.done
    /\ fnOut' = [done |-> TRUE,
                 st |-> Listener(fnIn.l, fnIn.serviceName, fnIn.desiredCount,
                                 fnIn.buildNumber, fnIn.pods,
                                 [targets |-> fnIn.targets, listeners |-> fnIn.listeners,
                                  hasErrors |-> fnIn.hasErrors, log |-> <<>>])]
    /\ UNCHANGED <<fnIn, vOrchestrator>>

NextListener == ApplyListener

SpecListener == InitListener /\ [][NextListener]_vars

(***************************************************************************)
(* parsePods: the name derived from a pod id (kubeimage.js 66-70).         *)
(***************************************************************************)
\* a pod id is a string of letters, digits and dashes
Letters == {"a"}
Digits == {"1"}
Dash == "-"

\* the ids a cluster gives: no dash at either end and no two dashes in a row
PodIds ==
    {id \in UNION {[1..n -> Letters \cup Digits \cup {Dash}] : n \in 1..MaxIdLen} :
        /\ id[1] # Dash
        /\ id[Len(id)] # Dash
        /\ \A i \in 1..(Len(id) - 1) : ~(id[i] = Dash /\ id[i + 1] = Dash)}

\* line 66, -[\d]*- : a dash at i, then digits only up to the next dash
DashDigitsDashAt(id, i) ==
    /\ id[i] = Dash
    /\ \E j \in (i + 1)..Len(id) :
          /\ id[j] = Dash
          /\ \A k \in (i + 1)..(j - 1) : id[k] \in Digits

\* lines 66 and 70: /^(.*)-[\d]*-/ with a greedy (.*) keeps the longest
\* prefix that is followed by a dash, digits and a dash; without a match the
\* name is the id
DeriveName(id) ==
    LET starts == {i \in 1..Len(id) : DashDigitsDashAt(id, i)}
    IN IF starts = {} THEN id
       ELSE SubSeq(id, 1, (CHOOSE i \in starts : \A k \in starts : k <= i) - 1)

InitParsePods ==
    /\ Parked
    /\ fnIn \in {[id |-> id] : id \in PodIds}
    /\ fnOut = NotApplied

ApplyParsePods ==
    /\ ~fnOut.done
    /\ fnOut' = [done |-> TRUE, name |-> DeriveName(fnIn.id)]
    /\ UNCHANGED <<fnIn, vOrchestrator>>

NextParsePods == ApplyParsePods

SpecParsePods == InitParsePods /\ [][NextParsePods]_vars

(***************************************************************************)
(* getPodsWithBuildNumbers in isolation: the builds given to the filtered  *)
(* pods and what the listener of deployment a, build 2, counts of them     *)
(* (kubeimage.js 89-100 and 222-249).                                      *)
(***************************************************************************)
BuildQueryInputs ==
    {[pods |-> ps, matches |-> ms, l |-> 1, serviceName |-> "a", desiredCount |-> 1,
      buildNumber |-> "2"] :
        ps \in SeqsUpTo(ParsedPods, MaxPodsB), ms \in SeqsUpTo(Builds, MaxMatchesB)}

InitBuildQuery ==
    /\ Parked
    /\ fnIn \in BuildQueryInputs
    /\ fnOut = NotApplied

ApplyBuildQuery ==
    /\ ~fnOut.done
    /\ \E pods \in {AssignBuilds(fnIn.pods, fnIn.matches)} :
          fnOut' = [done |-> TRUE,
                    pods |-> pods,
                    st |-> Listener(fnIn.l, fnIn.serviceName, fnIn.desiredCount,
                                    fnIn.buildNumber, pods,
                                    [targets |-> <<fnIn.serviceName>>,
                                     listeners |-> <<fnIn.l>>,
                                     hasErrors |-> FALSE, log |-> <<>>])]
    /\ UNCHANGED <<fnIn, vOrchestrator>>

NextBuildQuery == ApplyBuildQuery

SpecBuildQuery == InitBuildQuery /\ [][NextBuildQuery]_vars

(***************************************************************************)
(* The listener of deployment a, build 2, over two successive ticks: the   *)
(* dispatch of pollPods (kubeimage.js 182-184) hands it each tick's        *)
(* snapshot while it is registered.                                        *)
(***************************************************************************)
\* pods of the listener's deployment: on its build in every kind, and one
\* running pod on another build
PodsOfTicks ==
    {[name |-> "a", state |-> k.state, ready |-> k.ready, build |-> "2"] : k \in PodKinds}
    \cup {[name |-> "a", state |-> "Running", ready |-> TRUE, build |-> "1"]}

TicksInputs ==
    {[l |-> 1, serviceName |-> "a", desiredCount |-> d, buildNumber |-> "2",
      ticks |-> <<p1, p2>>] :
        d \in 0..MaxDesiredT, p1 \in SeqsUpTo(PodsOfTicks, MaxPodsT),
        p2 \in SeqsUpTo(PodsOfTicks, MaxPodsT)}

InitTicks ==
    /\ Parked
    /\ fnIn \in TicksInputs
    /\ fnOut = [done |-> FALSE, tick |-> 0,
                st |-> [targets |-> <<fnIn.serviceName>>, listeners |-> <<fnIn.l>>,
                        hasErrors |-> FALSE, log |-> <<>>]]

\* one tick: the listener is invoked if it is still registered (line 182)
ApplyTick ==
    /\ ~fnOut.done
    /\ \E k \in {fnOut.tick + 1} :
          fnOut' = [done |-> k = Len(fnIn.ticks),
                    tick |-> k,
                    st |-> IF InSeq(fnOut.st.listeners, fnIn.l)
                           THEN Listener(fnIn.l, fnIn.serviceName, fnIn.desiredCount,
                                         fnIn.buildNumber, fnIn.ticks[k], fnOut.st)
                           ELSE fnOut.st]
    /\ UNCHANGED <<fnIn, vOrchestrator>>

NextTicks == ApplyTick

SpecTicks == InitTicks /\ [][NextTicks]_vars

(***************************************************************************)
(* Properties.                                                             *)
(***************************************************************************)
\* The pods of the snapshot a listener is handed that belong to its
\* deployment and run its expected build, stated on the snapshot itself.
MatchingPods == {i \in 1..Len(fnIn.pods) :
                    /\ fnIn.pods[i].name = fnIn.serviceName
                    /\ fnIn.pods[i].build = fnIn.buildNumber}

SucceededCount ==
    Cardinality({i \in MatchingPods : fnIn.pods[i].state = "Running" /\ fnIn.pods[i].ready})

FailedCount ==
    Cardinality({i \in MatchingPods :
                    fnIn.pods[i].state \notin {"ContainerCreating", "Running", "Pending",
                                               "Terminating"}})

TargetRemoved == ~InSeq(fnOut.st.targets, fnIn.serviceName)
ListenerRemoved == ~InSeq(fnOut.st.listeners, fnIn.l)

\* C1: a listener evaluation resolves its target exactly when succeeded +
\* failed, counted over the pods of its deployment on its expected build,
\* equals the desired replica count; in every other case, a larger sum
\* included, the active set and the listener registry are left as they were.
C1_ResolvesIffCountsEqualDesired ==
    fnOut.done =>
        IF SucceededCount + FailedCount = fnIn.desiredCount
        THEN TargetRemoved /\ ListenerRemoved
        ELSE fnOut.st.targets = fnIn.targets /\ fnOut.st.listeners = fnIn.listeners

\* C1 witnesses: an evaluation whose counts exceed the desired count and leave
\* the target active, among snapshots that also hold pods of another build.
C1_Witness ==
    /\ fnOut.done
    /\ SucceededCount >= 1
    /\ FailedCount >= 1
    /\ SucceededCount + FailedCount > fnIn.desiredCount
    /\ \E i \in 1..Len(fnIn.pods) : fnIn.pods[i].build # fnIn.buildNumber
    /\ fnOut.st.targets = fnIn.targets
    /\ fnOut.st.listeners = fnIn.listeners

\* C2: every listener registered when a dispatch pass begins is invoked
\* exactly once during that pass.
C2_EveryRegisteredListenerInvokedOnce ==
    \A i \in 1..Len(lastDispatch.registered) :
        Cardinality({j \in 1..Len(lastDispatch.invoked) :
                        lastDispatch.invoked[j] = lastDispatch.registered[i]}) = 1

\* C3: once the poll loop has started the process eventually terminates; the
\* callback that ends a tick either ends the process or schedules the next
\* tick, and a tick that starts either ends the process or issues the query.
C3_PollLoopTerminates ==
    /\ pollingStarted ~> (exitStatus # -1)
    /\ [][(Running /\ cmd[GetPodPollCmd].stage = "exec"
              /\ cmd'[GetPodPollCmd].stage = "none")
            => (exitStatus' # -1 \/ (~pollTimer /\ pollTimer'))]_vars
    /\ [][(Running /\ pollTimer /\ ~pollTimer')
            => (exitStatus' # -1 \/ cmd'[GetPodsPollCmd].stage = "exec")]_vars

\* C3 witness: a started poll loop that was ended by the deadline.
C3_Witness == pollingStarted /\ exitReason = "timeout" /\ lastDispatch = NoDispatch

\* C4: once a tick of the poll loop has completed and the next one is
\* scheduled, no target name is added to the active set: every change of the
\* set removes names.
C4_ActiveSetOnlyShrinks ==
    [][(pollStarted # 0 /\ pollTimer) =>
          \A n \in Names : InSeq(pollingTargets', n) => InSeq(pollingTargets, n)]_vars

\* a tick starts: the poll timer fires, or healthCheckPods starts the loop
TickStarts ==
    Running /\ ((pollTimer /\ ~pollTimer') \/ (~pollingStarted /\ pollingStarted'))

\* C5: a tick that starts with more than the timeout elapsed since the loop
\* start, on the clock as the tick reads it for the deadline test, ends the
\* process with status 1, reports exactly the active set, removes no target
\* and no listener, and neither issues the snapshot query nor dispatches; a
\* tick that starts with no more than the timeout elapsed issues the query
\* and does not end the process.
C5_DeadlineDecidedAtTickStart ==
    [][TickStarts =>
          IF now' - pollStarted' > pollTimeout
          THEN /\ exitStatus' = 1
               /\ exitReason' = "timeout"
               /\ timeoutReport' = pollingTargets'
               /\ \A n \in Names : InSeq(pollingTargets, n) => InSeq(pollingTargets', n)
               /\ \A r \in DOMAIN req :
                     InSeq(pollingListeners, r) => InSeq(pollingListeners', r)
               /\ pollTimer => /\ pollingTargets' = pollingTargets
                               /\ pollingListeners' = pollingListeners
               /\ cmd'[GetPodsPollCmd].stage = "none"
               /\ lastDispatch' = NoDispatch
          ELSE /\ exitStatus' = -1
               /\ cmd'[GetPodsPollCmd].stage = "exec"]_vars

\* C5 witness: the deadline ended the process while two targets were active
\* and a listener was registered.
C5_Witness ==
    /\ exitReason = "timeout"
    /\ Len(timeoutReport) = 2
    /\ Len(pollingListeners) >= 1

\* C6: an evaluation that meets the resolution condition removes the target
\* and the listener in that evaluation, keeps the other targets and
\* listeners, sets the error flag when failed > 0 and leaves it as it was
\* when failed = 0.
C6_ResolutionEffects ==
    (fnOut.done /\ SucceededCount + FailedCount = fnIn.desiredCount) =>
        /\ fnOut.st.targets = SelectSeq(fnIn.targets, LAMBDA n : n # fnIn.serviceName)
        /\ fnOut.st.listeners = SelectSeq(fnIn.listeners, LAMBDA l : l # fnIn.l)
        /\ FailedCount > 0 => fnOut.st.hasErrors
        /\ FailedCount = 0 => fnOut.st.hasErrors = fnIn.hasErrors

\* C6 witness: desired 3 with two succeeded and one failed resolves as errored.
C6_Witness ==
    /\ fnOut.done
    /\ fnIn.desiredCount = 3
    /\ SucceededCount = 2
    /\ FailedCount = 1
    /\ ~fnIn.hasErrors
    /\ fnOut.st.hasErrors
    /\ TargetRemoved
    /\ ListenerRemoved

\* the evaluation of a snapshot of one pod that matches name and build
OneMatchingPod == fnOut.done /\ Len(fnIn.pods) = 1 /\ MatchingPods = {1}

CountedFailed == fnOut.st.log[1].totalErrors = 1
CountedSucceeded == fnOut.st.log[1].totalPodsRunning = 1

\* C7 as claimed: a matching pod is counted as failed exactly when its state
\* is Error or CrashLoopBackOff, as succeeded exactly when it is Running and
\* ready, and a pod in any other condition is added to neither count.
C7_FailedIffHardFailure ==
    OneMatchingPod =>
        /\ CountedFailed <=> fnIn.pods[1].state \in {"Error", "CrashLoopBackOff"}
        /\ CountedSucceeded <=> (fnIn.pods[1].state = "Running" /\ fnIn.pods[1].ready)

\* C7 as amended: a matching pod is counted as failed exactly when its state
\* is none of ContainerCreating, Running, Pending, Terminating, as succeeded
\* exactly when it is Running and ready, and never as both.
C7_FailedIffNotKnownState ==
    OneMatchingPod =>
        /\ CountedFailed <=>
              fnIn.pods[1].state \notin {"ContainerCreating", "Running", "Pending",
                                         "Terminating"}
        /\ CountedSucceeded <=> (fnIn.pods[1].state = "Running" /\ fnIn.pods[1].ready)
        /\ ~(CountedFailed /\ CountedSucceeded)
        /\ fnOut.st.log[1].totalErrors + fnOut.st.log[1].totalPodsRunning <= 1

\* C7 witness: a matching pod in a state outside both lists is counted as failed.
C7_Witness ==
    /\ OneMatchingPod
    /\ fnIn.pods[1].state = "Completed"
    /\ CountedFailed
    /\ fnIn.desiredCount = 1
    /\ TargetRemoved
    /\ fnOut.st.hasErrors

\* C8: when the process ends because a tick finds the active set empty after
\* dispatch, its status is 1 exactly when some target recorded an error and
\* 0 otherwise.
C8_FinishStatusReflectsErrors ==
    exitReason = "finishUpdate" =>
        /\ errorRecorded => exitStatus = 1
        /\ ~errorRecorded => exitStatus = 0

\* C8 witness: a run that ended through finishUpdate after a health check
\* resolved with a failed pod.
C8_Witness ==
    /\ exitReason = "finishUpdate"
    /\ errorRecorded
    /\ exitStatus = 1
    /\ \E r \in DOMAIN req : req[r].phase = "errored"

\* every argument is an update whose deployment was found up to date, or
\* was updated and then converged with no failed pod
AllTargetsSucceeded ==
    \A r \in DOMAIN req :
        /\ deploymentsToUpdate[r].build # NoBuild
        /\ \/ req[r].phase = "uptodate"
           \/ req[r].phase = "converged" /\ req[r].updated

\* C9: a process that has ended with every requested update target either
\* found up to date or updated and converged with no failed pod has ended
\* with status 0.
C9_AllSucceededExitsZero ==
    (exitStatus # -1 /\ AllTargetsSucceeded) => exitStatus = 0

\* C10: an update that runs out of retries marks the error flag and removes
\* its target, and does not itself end the process: the run goes on, or ends
\* through finishUpdate, the deadline or a query that runs out of retries.
C10_UpdateFailureIsContained ==
    \A r \in DOMAIN req :
        req[r].phase = "updatefailed" =>
            /\ pollingHasErrors
            /\ ~InSeq(pollingTargets, req[r].name)
            /\ exitReason \in {"running", "finishUpdate", "timeout", "fatal"}

(***************************************************************************)
(* execRetry: attempts and outcomes.                                       *)
(***************************************************************************)
\* the executions of the command (line 25) that the current run of execRetry
\* for c has started: tryNumber counts the failed ones
Executions(c) ==
    IF cmd[c].stage = "exec" THEN cmd[c].tryNumber + 1 ELSE cmd[c].tryNumber

\* the step in which the run of c gives up: onError() or the fatal exit
GivesUp(c) ==
    /\ cmd[c].stage = "exec"
    /\ cmd'[c].stage = "none"
    /\ exitReason = "running"
    /\ exitReason' \in {"fatal", "uncaught"}

\* C11 as stated: a run of execRetry never has more than maxExecRetries (30)
\* executions of its command.
C11_AtMostThirtyExecutions ==
    \A c \in CmdIds : Executions(c) <= maxExecRetries

\* C11 amended: a run of execRetry executes its command at most
\* maxExecRetries + 1 (31) times, and it gives up exactly on the failure of
\* the 31st execution.
C11_AtMostThirtyRetries ==
    /\ [](\A c \in CmdIds : Executions(c) <= maxExecRetries + 1)
    /\ [][\A c \in CmdIds : GivesUp(c) => Executions(c) = maxExecRetries + 1]_vars

\* C11 witness: a command that failed on every try has been given up on.
C11_Witness ==
    /\ exitReason \in {"fatal", "uncaught"}
    /\ \A c \in CmdIds : cmd[c].tryNumber = 0

\* what the callers of execRetry hold: everything but the runs themselves,
\* the clock and the inputs
vCallers == <<vMain, req, vPoll, vExit, vObs>>

\* the run of c schedules a retry / its retry timer fires
Retries(c) == cmd[c].stage = "exec" /\ cmd'[c].stage = "timer"
Reruns(c) == cmd[c].stage = "timer" /\ cmd'[c] # cmd[c]

\* the run of c ends
Ends(c) == cmd[c].stage = "exec" /\ cmd'[c] = Idle

\* a callback of a child process has changed what the callers hold; the poll
\* timer and the end of the event loop are not outcomes of execRetry
CallersChanged ==
    /\ vCallers' # vCallers
    /\ ~(pollTimer /\ ~pollTimer')
    /\ exitReason' # "drained"

\* C12: a run of execRetry delivers one outcome and ends with it.  While a
\* retry is pending, and on a failure with attempts remaining, nothing reaches
\* the callers and only the run's own counter moves; whatever reaches the
\* callers is the outcome of exactly one run, which ends in that step; a run
\* ends on a failure only out of retries, through the handler of the update
\* command or else through the fatal exit, and otherwise with its callback
\* (after which the process runs on, or the callback itself ends it through
\* finishUpdate or the deadline test of pollPods).
C12_OneOutcomePerRun ==
    [][/\ \A c \in CmdIds :
             /\ Retries(c) =>
                   /\ vCallers' = vCallers
                   /\ cmd' = [cmd EXCEPT ![c] = [stage |-> "timer",
                                                 tryNumber |-> cmd[c].tryNumber + 1]]
                   /\ cmd'[c].tryNumber <= maxExecRetries
             /\ Reruns(c) =>
                   /\ vCallers' = vCallers
                   /\ cmd' = [cmd EXCEPT ![c].stage = "exec"]
             /\ Ends(c) =>
                   \/ /\ cmd[c].tryNumber = maxExecRetries
                      /\ exitStatus' = 1
                      /\ exitReason' = IF c[1] = "updateDeploymentBuildNumber"
                                       THEN "uncaught" ELSE "fatal"
                   \/ exitReason' \in {"running", "finishUpdate", "timeout"}
       /\ CallersChanged => Cardinality({c \in CmdIds : Ends(c)}) = 1
       /\ cmd' # cmd => \E c \in CmdIds : Retries(c) \/ Reruns(c) \/ Ends(c)
                            \/ (pollTimer /\ ~pollTimer')]_vars

\* C12 witness: the last retry of a command is pending.
C12_Witness ==
    \E c \in CmdIds : cmd[c].stage = "timer" /\ cmd[c].tryNumber = maxExecRetries

(***************************************************************************)
(* main: the path of an argument whose build is already configured.        *)
(***************************************************************************)
\* the configured-build query of argument r returned the requested build
\* (line 309), so that line 324 did not run
NoOpTarget(r) ==
    /\ req[r].phase \in {"uptodate", "listening", "converged", "errored"}
    /\ ~req[r].updated

\* healthCheckPods has run for argument r
ListenerWasRegistered(r) == req[r].phase \in {"listening", "converged", "errored"}

\* C13: for a target whose requested build is the configured one no update
\* command is issued and a listener is registered for it.
C13_NoOpRegistersListener ==
    \A r \in DOMAIN req :
        NoOpTarget(r) =>
            /\ cmd[UpdateCmd(r)].stage = "none"
            /\ ListenerWasRegistered(r)

(***************************************************************************)
(* pollPods: one loop for all targets.                                     *)
(***************************************************************************)
\* what keeps a poll loop going: its timer (line 189) or one of the two
\* commands of its snapshot query (lines 80 and 89)
PollActivities ==
    (IF pollTimer THEN 1 ELSE 0)
    + (IF cmd[GetPodsPollCmd].stage # "none" THEN 1 ELSE 0)
    + (IF cmd[GetPodPollCmd].stage # "none" THEN 1 ELSE 0)

\* a tick begins: the timer fires, or healthCheckPods starts the loop
TickBegins == (pollTimer /\ ~pollTimer') \/ (~pollingStarted /\ pollingStarted')

\* a snapshot query is issued
QueryIssued == cmd[GetPodsPollCmd].stage = "none" /\ cmd'[GetPodsPollCmd].stage = "exec"

\* C14: there is one poll loop.  At most one of the timer and the two
\* commands of the snapshot query is pending, and none before the loop has
\* started; a snapshot query is issued only by a tick that begins, one per
\* tick; registering a listener when the loop has started leaves the timer
\* and the query as they are.
C14_OnePollLoop ==
    /\ [](PollActivities <= 1 /\ (~pollingStarted => PollActivities = 0))
    /\ [][/\ QueryIssued => TickBegins
          /\ (TickBegins /\ exitStatus' = -1) => QueryIssued
          /\ (pollingStarted /\ Len(pollingListeners') > Len(pollingListeners)) =>
                /\ pollTimer' = pollTimer
                /\ cmd'[GetPodsPollCmd] = cmd[GetPodsPollCmd]
                /\ cmd'[GetPodPollCmd] = cmd[GetPodPollCmd]
                /\ pollStarted' = pollStarted]_vars

\* C14 witness: two listeners are registered and the next tick is scheduled.
C14_Witness == Len(pollingListeners) = 2 /\ pollTimer /\ Running

(***************************************************************************)
(* The listener on a snapshot of transient pods.                           *)
(***************************************************************************)
\* the snapshot has pods of the listener's deployment and build, and every
\* one of them is neither failed nor running and ready
TransientOnly ==
    /\ MatchingPods # {}
    /\ \A i \in MatchingPods :
          \/ fnIn.pods[i].state \in {"ContainerCreating", "Pending", "Terminating"}
          \/ fnIn.pods[i].state = "Running" /\ ~fnIn.pods[i].ready

StaysActive ==
    /\ fnOut.st.targets = fnIn.targets
    /\ fnOut.st.listeners = fnIn.listeners
    /\ fnOut.st.hasErrors = fnIn.hasErrors

\* C15 as stated: on a snapshot whose matching pods are all transient the
\* target does not resolve, whatever the desired replica count.
C15_TransientNeverResolves ==
    (fnOut.done /\ TransientOnly) => StaysActive

\* C15 amended: on a snapshot whose matching pods are all transient the
\* target does not resolve when the desired replica count is not 0, and
\* resolves without an error when it is 0.
C15_TransientResolvesOnlyDesiredZero ==
    (fnOut.done /\ TransientOnly) =>
        IF fnIn.desiredCount = 0
        THEN TargetRemoved /\ ListenerRemoved /\ fnOut.st.hasErrors = fnIn.hasErrors
        ELSE StaysActive

\* C15 witness: two transient pods leave a target of two desired replicas
\* active.
C15_Witness ==
    /\ fnOut.done
    /\ TransientOnly
    /\ Cardinality(MatchingPods) = 2
    /\ \E i \in MatchingPods : fnIn.pods[i].state = "ContainerCreating"
    /\ fnIn.desiredCount = 2
    /\ StaysActive

(***************************************************************************)
(* Deregistration of a resolved listener.                                  *)
(***************************************************************************)
ListenerResolved(r) == req[r].phase \in {"converged", "errored"}

\* a dispatch pass has run in this step
DispatchPass == lastDispatch' # lastDispatch /\ lastDispatch' # NoDispatch

\* C16: a listener that has resolved is not registered any more, from the
\* very step of the dispatch pass that resolved it; a dispatch pass invokes
\* only listeners that have not resolved, each at most once.
C16_ResolvedListenerNeverInvoked ==
    /\ [](\A r \in DOMAIN req : ListenerResolved(r) => ~InSeq(pollingListeners, r))
    /\ [][DispatchPass =>
            \A j \in 1..Len(lastDispatch'.invoked) :
                /\ req[lastDispatch'.invoked[j]].phase = "listening"
                /\ \A k \in 1..Len(lastDispatch'.invoked) :
                      lastDispatch'.invoked[k] = lastDispatch'.invoked[j] => k = j]_vars

\* C16 witness: a dispatch pass that ran with one listener resolved earlier
\* and invoked the other one.
C16_Witness ==
    \E r \in DOMAIN req :
        /\ ListenerResolved(r)
        /\ Len(lastDispatch.registered) = 1
        /\ lastDispatch.registered[1] # r
        /\ lastDispatch.invoked = lastDispatch.registered

(***************************************************************************)
(* parsePods: name derivation.                                             *)
(***************************************************************************)
DashesOf(id) == {i \in 1..Len(id) : id[i] = Dash}

LastDash(id) == CHOOSE i \in DashesOf(id) : \A k \in DashesOf(id) : k <= i

DashBeforeLast(id) ==
    CHOOSE i \in DashesOf(id) \ {LastDash(id)} :
        \A k \in DashesOf(id) \ {LastDash(id)} : k <= i

\* the id is a name followed by two non-empty dash-delimited suffixes
EndsInTwoSuffixes(id) ==
    /\ Cardinality(DashesOf(id)) >= 2
    /\ LastDash(id) < Len(id)
    /\ DashBeforeLast(id) + 1 < LastDash(id)
    /\ DashBeforeLast(id) > 1

\* C17: an id that ends in two dash-delimited suffixes, numeric or
\* alphanumeric, derives the id without them; an id with fewer than two
\* dashes derives itself.
C17_NameStripsTwoSuffixes ==
    fnOut.done =>
        /\ EndsInTwoSuffixes(fnIn.id) =>
              fnOut.name = SubSeq(fnIn.id, 1, DashBeforeLast(fnIn.id) - 1)
        /\ Cardinality(DashesOf(fnIn.id)) < 2 => fnOut.name = fnIn.id

(***************************************************************************)
(* getPodsWithBuildNumbers: positional builds.                             *)
(***************************************************************************)
\* the requested pods that have a match of their own, are of the listener's
\* deployment and whose match is the listener's build
MatchedForListener ==
    {i \in 1..Len(fnIn.pods) :
        /\ i <= Len(fnIn.matches)
        /\ fnIn.pods[i].name = fnIn.serviceName
        /\ fnIn.matches[i] = fnIn.buildNumber}

\* C18: the i-th requested pod takes the build of the i-th match, a pod
\* beyond the last match has no build, matches beyond the last pod change
\* nothing, and the listener counts no pod without a build.
C18_BuildsArePositional ==
    fnOut.done =>
        /\ Len(fnOut.pods) = Len(fnIn.pods)
        /\ \A i \in 1..Len(fnIn.pods) :
              /\ fnOut.pods[i].build =
                    IF i <= Len(fnIn.matches) THEN fnIn.matches[i] ELSE NoBuild
              /\ fnOut.pods[i].name = fnIn.pods[i].name
              /\ fnOut.pods[i].state = fnIn.pods[i].state
              /\ fnOut.pods[i].ready = fnIn.pods[i].ready
        /\ fnOut.st.log[1].totalPodsRunning =
              Cardinality({i \in MatchedForListener :
                              fnIn.pods[i].state = "Running" /\ fnIn.pods[i].ready})
        /\ fnOut.st.log[1].totalErrors =
              Cardinality({i \in MatchedForListener : fnIn.pods[i].state = "Error"})

\* C18 witness: fewer matches than pods, and a running pod of the listener's
\* deployment beyond the last match is not counted while one within is.
C18_Witness ==
    /\ fnOut.done
    /\ Len(fnIn.matches) >= 1
    /\ Len(fnIn.matches) < Len(fnIn.pods)
    /\ \E i \in 1..Len(fnIn.pods) :
          /\ i > Len(fnIn.matches)
          /\ fnIn.pods[i].name = fnIn.serviceName
          /\ fnIn.pods[i].state = "Running"
    /\ fnIn.matches[Len(fnIn.matches)] = fnIn.buildNumber
    /\ fnOut.st.log[1].totalPodsRunning = 1

(***************************************************************************)
(* updateDeploymentBuildNumber: registration follows the update.           *)
(***************************************************************************)
\* the listener of argument r is registered in this step
Registers(r) == ~InSeq(pollingListeners, r) /\ InSeq(pollingListeners', r)

\* the update command of argument r ends with its callback
UpdateSucceeds(r) ==
    /\ cmd[UpdateCmd(r)].stage = "exec"
    /\ cmd'[UpdateCmd(r)] = Idle
    /\ req'[r].phase = "listening"

\* C19: the listener of a target that needs an update is registered by the
\* callback of its update command and by nothing else, so never while the
\* update is pending; a target whose update ran out of retries has no
\* listener and was not invoked by a dispatch pass.
C19_ListenerFollowsUpdate ==
    /\ [](\A r \in DOMAIN req :
             /\ req[r].phase = "updating" => ~InSeq(pollingListeners, r)
             /\ cmd[UpdateCmd(r)].stage # "none" => ~InSeq(pollingListeners, r)
             /\ req[r].phase = "updatefailed" =>
                   /\ ~InSeq(pollingListeners, r)
                   /\ ~InSeq(lastDispatch.invoked, r)
                   /\ ~InSeq(lastDispatch.registered, r))
    /\ [][\A r \in DOMAIN req :
             /\ (req'[r].updated /\ Registers(r)) => UpdateSucceeds(r)
             /\ req[r].phase = "updating" =>
                   req'[r].phase \in {"updating", "listening", "updatefailed"}]_vars

\* C19 witness: the update of one target ran out of retries after the other
\* target's update had succeeded and registered its listener.
C19_Witness ==
    \E r \in DOMAIN req : \E q \in DOMAIN req :
        /\ req[r].phase = "updatefailed"
        /\ req[q].updated
        /\ req[q].phase = "listening"
        /\ InSeq(pollingListeners, q)

(***************************************************************************)
(* pollPods: the deadline.                                                 *)
(***************************************************************************)
\* C20: the start time of the loop is taken once, by the first tick, from
\* the clock, and --timeout is never changed: no step moves either of them
\* afterwards, whatever is registered or resolved, and the deadline exit is
\* taken on these two values alone.
C20_DeadlineIsGlobalAndFixed ==
    /\ [](pollingStarted <=> pollStarted # 0)
    /\ [][/\ pollStarted # 0 => pollStarted' = pollStarted
          /\ pollTimeout' = pollTimeout
          /\ (pollStarted = 0 /\ pollStarted' # 0) =>
                (~pollingStarted /\ pollingStarted' /\ pollStarted' = now)
          /\ (exitReason = "running" /\ exitReason' = "timeout") =>
                now' - pollStarted' > pollTimeout]_vars

\* C20 witness: time has passed since the loop started, one target has
\* resolved and another is still listened to.
C20_Witness ==
    /\ Running
    /\ pollStarted # 0
    /\ now > pollStarted
    /\ \E r \in DOMAIN req : \E q \in DOMAIN req :
          ListenerResolved(r) /\ req[q].phase = "listening"

(***************************************************************************)
(* The listener is level-triggered.                                        *)
(***************************************************************************)
\* the pods of a snapshot the listener counts as succeeded and as failed,
\* stated on the snapshot
SucceededIn(pods) ==
    Cardinality({i \in 1..Len(pods) :
                    /\ pods[i].name = fnIn.serviceName
                    /\ pods[i].build = fnIn.buildNumber
                    /\ pods[i].state = "Running" /\ pods[i].ready})

FailedIn(pods) ==
    Cardinality({i \in 1..Len(pods) :
                    /\ pods[i].name = fnIn.serviceName
                    /\ pods[i].build = fnIn.buildNumber
                    /\ pods[i].state \notin {"ContainerCreating", "Running", "Pending",
                                              "Terminating"}})

\* C21: the k-th evaluation of a listener counts the pods of the k-th
\* snapshot alone and resolves exactly when those counts add up to the
\* desired count, as errored exactly when that snapshot has a failed pod;
\* what an earlier snapshot held contributes nothing, and an evaluation
\* that does not resolve leaves the registry, the active set and the error
\* flag as they were.
C21_ListenerIsLevelTriggered ==
    \A k \in 1..Len(fnOut.st.log) :
        LET entry == fnOut.st.log[k]
            succeeded == SucceededIn(fnIn.ticks[k])
            failed == FailedIn(fnIn.ticks[k])
        IN /\ entry.totalPodsRunning = succeeded
           /\ entry.totalErrors = failed
           /\ entry.resolved <=> (succeeded + failed = fnIn.desiredCount)
           /\ (k = Len(fnOut.st.log) /\ entry.resolved) =>
                 /\ fnOut.st.hasErrors <=> (failed > 0)
                 /\ fnOut.st.listeners = <<>>
                 /\ fnOut.st.targets = <<>>
           /\ (k = Len(fnOut.st.log) /\ ~entry.resolved) =>
                 /\ ~fnOut.st.hasErrors
                 /\ fnOut.st.listeners = <<fnIn.l>>
                 /\ fnOut.st.targets = <<fnIn.serviceName>>

\* C21 witness: a first snapshot with one succeeded pod, then a snapshot
\* without it and with one failed pod; the two would add up to the desired
\* count of 2, and the target is still waiting after the second tick.
C21_Witness ==
    /\ fnOut.tick = 2
    /\ fnIn.desiredCount = 2
    /\ SucceededIn(fnIn.ticks[1]) = 1 /\ FailedIn(fnIn.ticks[1]) = 0
    /\ SucceededIn(fnIn.ticks[2]) = 0 /\ FailedIn(fnIn.ticks[2]) = 1
    /\ Len(fnOut.st.log) = 2
    /\ InSeq(fnOut.st.listeners, fnIn.l)
    /\ ~fnOut.st.hasErrors

(***************************************************************************)
(* Exit with success and the targets that are not resolved.                *)
(***************************************************************************)
\* argument r is name=build and names a deployment that exists
UpdateTarget(r) ==
    /\ deploymentsToUpdate[r].build # NoBuild
    /\ req[r].phase \notin {"start", "notfound"}

\* the target of argument r has neither been found up to date nor resolved
\* by its listener nor failed its update: its configured-build query or its
\* update is pending, or its listener is waiting
Unresolved(r) ==
    /\ UpdateTarget(r)
    /\ req[r].phase \in {"querying", "updating", "listening"}

\* C22: the process has not ended with status 0 while a requested update
\* target is unresolved, its configured-build query being in flight or
\* retried included.
C22_NoSuccessWhileTargetUnresolved ==
    exitStatus = 0 => \A r \in DOMAIN req : ~Unresolved(r)

(***************************************************************************)
(* What can remove a target from the active set.                           *)
(***************************************************************************)
\* the target of argument r is in the active set
Active(r) == InSeq(pollingTargets, req[r].name)

\* the update command of argument r is in flight or waiting for a retry
UpdatePending(r) == cmd[UpdateCmd(r)].stage # "none"

\* C23: every target in the active set has its update command pending or a
\* listener registered for it.
C23_ActiveTargetHasRemover ==
    \A r \in DOMAIN req : Active(r) => (UpdatePending(r) \/ InSeq(pollingListeners, r))

(***************************************************************************)
(* The deadline and a snapshot query that is in flight.                    *)
(***************************************************************************)
\* the loop has started and more than --timeout has elapsed since
PastDeadline == pollStarted # 0 /\ now - pollStarted > pollTimeout

\* a listener resolves its target in this step
SomeTargetResolves ==
    \E r \in DOMAIN req : ~ListenerResolved(r) /\ ListenerResolved(r)'

\* C24: past the deadline no snapshot is dispatched to the listeners, no
\* target is resolved and the process does not end with status 0, also when
\* the deadline passes while the snapshot query of a tick is pending.
C24_NothingHappensPastDeadline ==
    [][PastDeadline =>
          /\ ~DispatchPass
          /\ ~SomeTargetResolves
          /\ ~(exitStatus = -1 /\ exitStatus' = 0)]_vars

(***************************************************************************)
(* The error flag.                                                         *)
(***************************************************************************)
\* C25: no step clears pollingHasErrors once it is set, and a process whose
\* flag is set has not ended with status 0, whichever way it ended:
\* finishUpdate, the deadline, a query out of retries or any other.
C25_ErrorFlagIsStickyAndFatal ==
    /\ [][pollingHasErrors => pollingHasErrors']_vars
    /\ [](pollingHasErrors => exitStatus \in {-1, 1})
    /\ [][(pollingHasErrors' /\ exitStatus = -1 /\ exitStatus' # -1) =>
            /\ exitStatus' = 1
            /\ exitReason' \in {"finishUpdate", "timeout", "fatal", "uncaught"}]_vars

\* C25 witness: one target resolved with a failed pod, a later dispatch
\* resolved the other without one, and the process ended through finishUpdate.
C25_Witness ==
    /\ pollingHasErrors
    /\ exitReason = "finishUpdate"
    /\ \E r \in DOMAIN req : \E q \in DOMAIN req :
          /\ req[r].phase = "errored"
          /\ req[q].phase = "converged"
          /\ lastDispatch.invoked = <<q>>

====
